---- MODULE Spec2Model ----
(***************************************************************************)
(* The loan ledger of loan-app: the /api/loans handlers of server.js       *)
(* (src/unnamed/part_000), of the full serverless handler                  *)
(* (src/unnamed/part_001), of api/loans.js (src/loans.js) and of the       *)
(* reduced api/index.js (src/api/index.js), over the "borrowers"           *)
(* collection of MongoDB and the file / in-memory fallback store.          *)
(*                                                                         *)
(* Numbers are JavaScript numbers restricted to integers and NaN.  Loan    *)
(* amounts are drawn as multiples of 1200, so that the quotients by 100    *)
(* and by 12 of the interest formula are exact in integer arithmetic.      *)
(* Dates are calendar days [y, m, d] with m = getMonth() in 0..11; the     *)
(* clock is frozen at Today.  Free-text fields (name, contact, address,    *)
(* note, reason) take no part in the ledger and are left out, except that  *)
(* a POST body says whether its required fields are present.               *)
(***************************************************************************)
EXTENDS Integers, Sequences, FiniteSets, TLC

VARIABLES
  impl,            \* the handler file this deployment runs
  db,              \* module-level db (cachedDb in loans.js): TRUE when set
  useFileStorage,  \* module-level flag of server.js and the handler
  mongo,           \* the "borrowers" collection: _id -> document
  file,            \* data.json (server.js) or memoryData (handler): _id -> record
  inflight,        \* PUT payment requests suspended at an await
  ops,             \* accepted PUTs so far
  last             \* the last request served and its response

vars == <<impl, db, useFileStorage, mongo, file, inflight, ops, last>>

-----------------------------------------------------------------------------
(* JavaScript values *)

\* Number(x) of a value that is not numeric; kept apart from every amount.
NaN == -2147483647

IsNaN(x) == x = NaN

Truthy(x) == ~IsNaN(x) /\ x # 0

\* x || 0
OrZero(x) == IF Truthy(x) THEN x ELSE 0

Add(a, b) == IF IsNaN(a) \/ IsNaN(b) THEN NaN ELSE a + b

Sub(a, b) == IF IsNaN(a) \/ IsNaN(b) THEN NaN ELSE a - b

Mul(a, b) == IF IsNaN(a) \/ IsNaN(b) THEN NaN ELSE a * b

\* a / b for a divisor b > 0 that divides a
Quot(a, b) == IF IsNaN(a) THEN NaN ELSE a \div b

\* a <= b, a > b
Leq(a, b) == ~IsNaN(a) /\ ~IsNaN(b) /\ a <= b

Gt(a, b) == ~IsNaN(a) /\ ~IsNaN(b) /\ a > b

\* Math.max(a, b)
MathMax(a, b) == IF IsNaN(a) \/ IsNaN(b) THEN NaN ELSE IF a >= b THEN a ELSE b

\* Math.floor(a / b), b # 0
MathFloorDiv(a, b) == IF b > 0 THEN a \div b ELSE (0 - a) \div (0 - b)

\* A value of a JSON body: a number, a text that is no number, or absent.
Num(n) == [k |-> "num", v |-> n]

Text == [k |-> "text", v |-> 0]

Absent == [k |-> "absent", v |-> 0]

\* Number(raw)
Number(raw) == IF raw.k = "num" THEN raw.v ELSE NaN

\* raw !== undefined
Defined(raw) == raw.k # "absent"

-----------------------------------------------------------------------------
(* Dates *)

Date(y, m, d) == [y |-> y, m |-> m, d |-> d]

\* new Date()
Today == Date(2024, 0, 10)

IsLeap(y) == (y % 4 = 0 /\ y % 100 # 0) \/ y % 400 = 0

DaysInMonth(y, m) ==
  IF m = 1 THEN (IF IsLeap(y) THEN 29 ELSE 28)
  ELSE IF m \in {3, 5, 8, 10} THEN 30 ELSE 31

\* date.setMonth(month), month >= 0: the day of the month is kept, and a day
\* the target month does not have runs over into the month after it.
SetMonth(date, month) ==
  LET y2 == date.y + (month \div 12)
      m2 == month % 12
      dim == DaysInMonth(y2, m2)
  IN IF date.d <= dim THEN Date(y2, m2, date.d)
     ELSE IF m2 = 11 THEN Date(y2 + 1, 0, date.d - dim)
     ELSE Date(y2, m2 + 1, date.d - dim)

-----------------------------------------------------------------------------
(* Ledger computations *)

RECURSIVE SumAmounts(_)
\* list.reduce((sum, p) => sum + (p.amount || 0), 0)
SumAmounts(list) ==
  IF list = <<>> THEN 0
  ELSE Add(SumAmounts(SubSeq(list, 1, Len(list) - 1)), OrZero(list[Len(list)].amount))

\* loanAmount * (monthlyInterestRate / 100) * term, with monthlyInterestRate
\* = interestRate / 12 when interestType is 'annually'.  The product is taken
\* before the quotients, which is the same real number.
InterestOver(loanAmount, interestRate, term, interestType) ==
  Quot(Mul(Mul(loanAmount, interestRate), term),
       IF interestType = "annually" THEN 1200 ELSE 100)

calculateInitialBalance(loanAmount, interestRate, term, interestType) ==
  IF Leq(loanAmount, 0) \/ Leq(term, 0) THEN loanAmount
  ELSE Add(loanAmount, InterestOver(loanAmount, interestRate, term, interestType))

\* totalInterest returning the principal for loanAmount <= 0 or term <= 0
totalInterestAliased(loanAmount, interestRate, term, interestType) ==
  IF Leq(loanAmount, 0) \/ Leq(term, 0) THEN loanAmount
  ELSE InterestOver(loanAmount, interestRate, term, interestType)

\* let totalInterest = 0; if (interestRate && term) { ... }
totalInterest(loanAmount, interestRate, term, interestType) ==
  IF Truthy(interestRate) /\ Truthy(term)
  THEN InterestOver(loanAmount, interestRate, term, interestType)
  ELSE 0

-----------------------------------------------------------------------------
(* Requests *)

Ids == {"L1"}

\* req.query.id: a stored id, an id no store holds, or none ("")
UnknownId == "L9"

NoId == ""

AnyId == Ids \cup {UnknownId, NoId}

\* POST bodies.  required: name, contact and address are all present.
StdBody ==
  [required |-> TRUE, loanAmount |-> Num(1200), term |-> Num(12),
   interestRate |-> Num(5), interestType |-> "monthly",
   nextDueDate |-> <<Date(2023, 11, 31)>>, monthlyPayment |-> Num(200)]

PostBodies ==
  {StdBody,
   [StdBody EXCEPT !.required = FALSE],
   [StdBody EXCEPT !.interestType = "annually", !.nextDueDate = <<Date(2024, 0, 15)>>],
   [StdBody EXCEPT !.term = Absent],
   [StdBody EXCEPT !.nextDueDate = <<>>],
   [StdBody EXCEPT !.loanAmount = Absent, !.monthlyPayment = Absent],
   [StdBody EXCEPT !.loanAmount = Num(-1200)]}

\* A PUT body with body.payment: the fields of body.payment, and
\* bodyUpdateDueDate for an updateDueDate placed beside the payment object
\* (body.updateDueDate).
StdPayment ==
  [amount |-> Num(150), date |-> <<>>, updateDueDate |-> FALSE,
   bodyUpdateDueDate |-> FALSE]

PaymentBodies ==
  {[StdPayment EXCEPT !.updateDueDate = TRUE],
   [StdPayment EXCEPT !.amount = Num(450), !.date = <<Date(2024, 0, 5)>>,
                      !.updateDueDate = TRUE],
   [StdPayment EXCEPT !.amount = Num(450)],
   [StdPayment EXCEPT !.amount = Num(450), !.bodyUpdateDueDate = TRUE],
   [StdPayment EXCEPT !.amount = Num(1200), !.updateDueDate = TRUE],
   [StdPayment EXCEPT !.amount = Num(-5)],
   [StdPayment EXCEPT !.amount = Num(0)],
   [StdPayment EXCEPT !.amount = Text],
   [StdPayment EXCEPT !.amount = Num(1000000000)]}

\* body.penalty of a PUT
PenaltyBodies == {[amount |-> Num(100)], [amount |-> Num(50)], [amount |-> Text]}

\* body.borrowerUpdate of a PUT
NoUpdate ==
  [loanAmount |-> Absent, term |-> Absent, interestRate |-> Absent,
   interestType |-> "", monthlyPayment |-> Absent]

BorrowerUpdates ==
  {[NoUpdate EXCEPT !.loanAmount = Num(2400)],
   [NoUpdate EXCEPT !.term = Num(6), !.interestType = "annually"],
   [NoUpdate EXCEPT !.interestRate = Num(0)],
   [NoUpdate EXCEPT !.interestRate = Num(5)],
   [NoUpdate EXCEPT !.loanAmount = Text],
   [NoUpdate EXCEPT !.monthlyPayment = Num(100)]}

\* A PUT body with none of the keys payment, penalty, borrowerUpdate
EmptyBody == [payment |-> FALSE, penalty |-> FALSE, borrowerUpdate |-> FALSE]

\* One body, for a branch that does not read it
OneOf(bodies) == {CHOOSE b \in bodies : TRUE}

\* The PUTs served: every body on the stored id, one body on the others.
Puts(bodies) == (Ids \X bodies) \cup ({UnknownId, NoId} \X OneOf(bodies))

NoRequest == [op |-> "none", status |-> 0, id |-> NoId]

\* The accepted PUTs the model follows.
MaxOps == 3

\* The largest sum of payments the model follows.
MaxSum == 2000000000

-----------------------------------------------------------------------------
(* Stores *)

NoLoans == [i \in {} |-> 0]

Insert(store, id, doc) ==
  [i \in DOMAIN store \cup {id} |-> IF i = id THEN doc ELSE store[i]]

\* ObjectId of insertOne, generateId(): an id no store holds yet
FreshIds == Ids \ (DOMAIN mongo \cup DOMAIN file)

\* connectToDatabase() without its "if (useFileStorage) return null" line:
\* a connection is attempted again after a failure.
connectToDatabaseRetry ==
  IF db THEN {[db |-> TRUE, useFileStorage |-> useFileStorage]}
  ELSE {[db |-> TRUE, useFileStorage |-> FALSE], [db |-> FALSE, useFileStorage |-> TRUE]}

\* connectToDatabase() of server.js and of the handler: the (db, useFileStorage)
\* it may leave behind.  client.connect() succeeds or throws.
connectToDatabase ==
  IF db THEN {[db |-> TRUE, useFileStorage |-> useFileStorage]}
  ELSE IF useFileStorage THEN {[db |-> FALSE, useFileStorage |-> TRUE]}
  ELSE {[db |-> TRUE, useFileStorage |-> FALSE], [db |-> FALSE, useFileStorage |-> TRUE]}

Connected(c) ==
  /\ db' = c.db
  /\ useFileStorage' = c.useFileStorage

\* if (db && !useFileStorage)
UseMongo(c) == c.db /\ ~c.useFileStorage

Respond(op, status, id, body) ==
  last' = [op |-> op, status |-> status, id |-> id, body |-> body]

\* A request that is answered without a write
Refuse(op, status, id, body) ==
  /\ Respond(op, status, id, body)
  /\ UNCHANGED <<mongo, file, ops>>

\* deleteOne / splice: the store without the loan
Remove(store, id) == [i \in DOMAIN store \ {id} |-> store[i]]

\* The write of an accepted DELETE: the loan leaves its store
Drop(useMongo, id) ==
  /\ UNCHANGED ops
  /\ IF useMongo
     THEN mongo' = Remove(mongo, id) /\ UNCHANGED file
     ELSE file' = Remove(file, id) /\ UNCHANGED mongo

\* The write of an accepted PUT: doc replaces the stored document
Store(useMongo, id, doc) ==
  /\ ops < MaxOps
  /\ ops' = ops + 1
  /\ IF useMongo
     THEN mongo' = [mongo EXCEPT ![id] = doc] /\ UNCHANGED file
     ELSE file' = [file EXCEPT ![id] = doc] /\ UNCHANGED mongo

-----------------------------------------------------------------------------
(* server.js *)

\* const borrower = { ... } of app.post; the handler and api/index.js build
\* the same object.
Borrower(body) ==
  [loanAmount |-> OrZero(Number(body.loanAmount)),
   term |-> OrZero(Number(body.term)),
   interestRate |-> OrZero(Number(body.interestRate)),
   interestType |-> body.interestType,
   nextDueDate |-> body.nextDueDate,
   monthlyPayment |-> OrZero(Number(body.monthlyPayment)),
   payments |-> <<>>,
   penalties |-> <<>>,
   totalPenalties |-> 0,
   remainingBalance |->
     calculateInitialBalance(OrZero(Number(body.loanAmount)),
                             OrZero(Number(body.interestRate)),
                             OrZero(Number(body.term)), body.interestType),
   lastAdvancePayment |-> <<>>]

ServerPost(body) ==
  /\ impl = "server"
  /\ UNCHANGED <<impl, inflight, ops>>
  /\ IF ~body.required
     THEN /\ Respond("POST", 400, NoId, body)
          /\ UNCHANGED <<db, useFileStorage, mongo, file>>
     ELSE \E c \in connectToDatabase : \E id \in FreshIds :
          /\ Connected(c)
          /\ Respond("POST", 201, id, body)
          /\ IF UseMongo(c)
             THEN mongo' = Insert(mongo, id, Borrower(body)) /\ UNCHANGED file
             ELSE file' = Insert(file, id, Borrower(body)) /\ UNCHANGED mongo

\* const paymentRecord = { ... }
PaymentRecord(payment) ==
  [amount |-> OrZero(Number(payment.amount)),
   date |-> IF payment.date # <<>> THEN payment.date[1] ELSE Today]

\* The validation of app.put: the status it answers, 0 when it lets the payment by.
ServerPaymentValidation(paymentRecord) ==
  IF ~Truthy(paymentRecord.amount) \/ Leq(paymentRecord.amount, 0) THEN 400
  ELSE IF Gt(paymentRecord.amount, 999999999) THEN 400
  ELSE IF IsNaN(paymentRecord.amount) THEN 400
  ELSE 0

\* newBalance of the payment branch
PaymentBalance(borrower, paymentRecord) ==
  LET totalPayments == Add(SumAmounts(borrower.payments), paymentRecord.amount)
      totalPenalties == OrZero(borrower.totalPenalties)
      loanAmount == OrZero(borrower.loanAmount)
      interest == totalInterest(loanAmount, borrower.interestRate, borrower.term,
                                borrower.interestType)
  IN MathMax(Sub(Add(Add(loanAmount, interest), totalPenalties), totalPayments), 0)

\* Math.floor(paymentRecord.amount / monthlyPayment)
monthsCovered(paymentRecord, borrower) ==
  MathFloorDiv(paymentRecord.amount, borrower.monthlyPayment)

\* The due-date part of updateData.$set: nothing, or nextDueDate with
\* lastAdvancePayment.
ServerAdvance(borrower, payment, paymentRecord) ==
  IF /\ payment.updateDueDate
     /\ Truthy(borrower.monthlyPayment)
     /\ borrower.nextDueDate # <<>>
     /\ Gt(paymentRecord.amount, 0)
     /\ monthsCovered(paymentRecord, borrower) >= 1
  THEN LET currentDueDate == borrower.nextDueDate[1]
           nextDueDate == SetMonth(currentDueDate,
                                   currentDueDate.m + monthsCovered(paymentRecord, borrower))
       IN <<[nextDueDate |-> nextDueDate,
             lastAdvancePayment |->
               [amount |-> paymentRecord.amount,
                monthsCovered |-> monthsCovered(paymentRecord, borrower),
                date |-> paymentRecord.date,
                originalDueDate |-> currentDueDate,
                newDueDate |-> nextDueDate]]>>
  ELSE <<>>

\* updateData of the payment branch
ServerPaymentUpdate(borrower, payment) ==
  [push |-> PaymentRecord(payment),
   remainingBalance |-> PaymentBalance(borrower, PaymentRecord(payment)),
   advance |-> ServerAdvance(borrower, payment, PaymentRecord(payment))]

\* ApplyPayment with $set: { payments: [paymentRecord] } for $push
ApplyPaymentOverwrite(doc, updateData) ==
  [doc EXCEPT !.payments = <<updateData.push>>,
              !.remainingBalance = updateData.remainingBalance]

\* collection.updateOne(..., updateData), and the same writes on data.json:
\* $push and $set act on the stored document.
ApplyPayment(doc, updateData) ==
  LET paid == [doc EXCEPT !.payments = Append(@, updateData.push),
                          !.remainingBalance = updateData.remainingBalance]
  IN IF updateData.advance = <<>> THEN paid
     ELSE [paid EXCEPT !.nextDueDate = <<updateData.advance[1].nextDueDate>>,
                       !.lastAdvancePayment = <<updateData.advance[1].lastAdvancePayment>>]

\* The sums of the payments stay in the range the model follows.
InRange(borrower, paymentRecord) ==
  SumAmounts(borrower.payments) <= MaxSum - paymentRecord.amount

ServerPutPayment(id, payment) ==
  /\ impl = "server"
  /\ UNCHANGED <<impl, inflight>>
  /\ \E c \in connectToDatabase :
       /\ Connected(c)
       /\ IF ~c.db
          THEN \* db.collection(...) of null throws: the catch answers 500
               Refuse("payment", 500, id, payment)
          ELSE IF id = NoId
          THEN Refuse("payment", 400, id, payment)
          ELSE LET store == IF UseMongo(c) THEN mongo ELSE file IN
               IF id \notin DOMAIN store
               THEN Refuse("payment", 404, id, payment)
               ELSE IF ServerPaymentValidation(PaymentRecord(payment)) # 0
               THEN Refuse("payment", ServerPaymentValidation(PaymentRecord(payment)),
                           id, payment)
               ELSE /\ InRange(store[id], PaymentRecord(payment))
                    /\ Respond("payment", 200, id, payment)
                    /\ Store(UseMongo(c), id,
                             ApplyPayment(store[id], ServerPaymentUpdate(store[id], payment)))

\* const penaltyRecord = { ... }
PenaltyRecord(penalty) ==
  [amount |-> OrZero(Number(penalty.amount)), date |-> Today]

\* newTotalPenalties of the penalty branch
newTotalPenalties(borrower, penaltyRecord) ==
  Add(SumAmounts(borrower.penalties), penaltyRecord.amount)

\* newBalance of the penalty branch, as stored: Math.max(newBalance, 0)
PenaltyBalance(borrower, penaltyRecord) ==
  LET totalPayments == SumAmounts(borrower.payments)
      loanAmount == OrZero(borrower.loanAmount)
      interest == totalInterest(loanAmount, borrower.interestRate, borrower.term,
                                borrower.interestType)
  IN MathMax(Sub(Add(Add(loanAmount, interest),
                     newTotalPenalties(borrower, penaltyRecord)), totalPayments), 0)

\* updateOne with $push penalties and $set remainingBalance, totalPenalties
ApplyPenalty(doc, borrower, penaltyRecord) ==
  [doc EXCEPT !.penalties = Append(@, penaltyRecord),
              !.remainingBalance = PenaltyBalance(borrower, penaltyRecord),
              !.totalPenalties = newTotalPenalties(borrower, penaltyRecord)]

ServerPutPenalty(id, penalty) ==
  /\ impl = "server"
  /\ UNCHANGED <<impl, inflight>>
  /\ \E c \in connectToDatabase :
       /\ Connected(c)
       /\ IF ~c.db
          THEN Refuse("penalty", 500, id, penalty)
          ELSE IF id = NoId
          THEN Refuse("penalty", 400, id, penalty)
          ELSE LET store == IF UseMongo(c) THEN mongo ELSE file IN
               IF id \notin DOMAIN store
               THEN Refuse("penalty", 404, id, penalty)
               ELSE /\ Respond("penalty", 200, id, penalty)
                    /\ Store(UseMongo(c), id,
                             ApplyPenalty(store[id], store[id], PenaltyRecord(penalty)))

\* UpdateFields replacing the record: a field the body lacks is reset
UpdateFieldsReplace(borrower, u) ==
  [borrower EXCEPT
     !.loanAmount = IF Defined(u.loanAmount) THEN Number(u.loanAmount) ELSE 0,
     !.term = IF Defined(u.term) THEN Number(u.term) ELSE 0,
     !.interestRate = IF Defined(u.interestRate) THEN Number(u.interestRate) ELSE 0,
     !.interestType = IF u.interestType # "" THEN u.interestType ELSE "monthly",
     !.monthlyPayment = IF Defined(u.monthlyPayment) THEN Number(u.monthlyPayment) ELSE 0]

\* updateFields of the borrowerUpdate branch, as the document it leaves:
\* a field is set when the body has it.
UpdateFields(borrower, u) ==
  [borrower EXCEPT
     !.loanAmount = IF Defined(u.loanAmount) THEN Number(u.loanAmount) ELSE @,
     !.term = IF Defined(u.term) THEN Number(u.term) ELSE @,
     !.interestRate = IF Defined(u.interestRate) THEN Number(u.interestRate) ELSE @,
     !.interestType = IF u.interestType # "" THEN u.interestType ELSE @,
     !.monthlyPayment = IF Defined(u.monthlyPayment) THEN Number(u.monthlyPayment) ELSE @]

\* if (loanAmount !== undefined || term !== undefined || ...)
TermsChanged(u) ==
  \/ Defined(u.loanAmount)
  \/ Defined(u.term)
  \/ Defined(u.interestRate)
  \/ u.interestType # ""

\* newBalance of the borrowerUpdate branch, from the merged terms
UpdateBalance(borrower, u) ==
  LET merged == UpdateFields(borrower, u)
      interest == totalInterest(merged.loanAmount, merged.interestRate, merged.term,
                                merged.interestType)
      totalPayments == SumAmounts(borrower.payments)
      totalPenalties == OrZero(borrower.totalPenalties)
  IN MathMax(Sub(Add(Add(merged.loanAmount, interest), totalPenalties), totalPayments), 0)

\* updateOne with $set: updateFields
ApplyUpdate(doc, borrower, u) ==
  IF TermsChanged(u)
  THEN [UpdateFields(doc, u) EXCEPT !.remainingBalance = UpdateBalance(borrower, u)]
  ELSE UpdateFields(doc, u)

ServerPutBorrowerUpdate(id, u) ==
  /\ impl = "server"
  /\ UNCHANGED <<impl, inflight>>
  /\ \E c \in connectToDatabase :
       /\ Connected(c)
       /\ IF ~c.db
          THEN Refuse("borrowerUpdate", 500, id, u)
          ELSE IF id = NoId
          THEN Refuse("borrowerUpdate", 400, id, u)
          ELSE \* this branch reads and writes the collection in either mode
               IF id \notin DOMAIN mongo
               THEN Refuse("borrowerUpdate", 404, id, u)
               ELSE /\ Respond("borrowerUpdate", 200, id, u)
                    /\ Store(TRUE, id, ApplyUpdate(mongo[id], mongo[id], u))

\* A PUT with none of the body keys: res.status(400) "Invalid request."
ServerPutInvalid(id) ==
  /\ impl = "server"
  /\ UNCHANGED <<impl, inflight>>
  /\ \E c \in connectToDatabase :
       /\ Connected(c)
       /\ IF ~c.db
          THEN Refuse("invalid", 500, id, EmptyBody)
          ELSE Refuse("invalid", 400, id, EmptyBody)

\* app.get: the list of the collection or of data.json
ServerGet ==
  /\ impl = "server"
  /\ UNCHANGED <<impl, inflight>>
  /\ \E c \in connectToDatabase :
       /\ Connected(c)
       /\ Refuse("GET", 200, NoId, EmptyBody)

\* app.delete: db.collection(...) before anything else, then deleteOne on
\* the collection.
ServerDelete(id) ==
  /\ impl = "server"
  /\ UNCHANGED <<impl, inflight>>
  /\ \E c \in connectToDatabase :
       /\ Connected(c)
       /\ IF ~c.db
          THEN Refuse("DELETE", 500, id, EmptyBody)
          ELSE IF id = NoId
          THEN Refuse("DELETE", 400, id, EmptyBody)
          ELSE IF id \notin DOMAIN mongo
          THEN Refuse("DELETE", 404, id, EmptyBody)
          ELSE /\ Respond("DELETE", 200, id, EmptyBody)
               /\ Drop(TRUE, id)

-----------------------------------------------------------------------------
(* The serverless handler (src/unnamed/part_001) *)

HandlerPost(body) ==
  /\ impl = "handler"
  /\ UNCHANGED <<impl, inflight, ops>>
  /\ IF ~body.required
     THEN /\ Respond("POST", 400, NoId, body)
          /\ UNCHANGED <<db, useFileStorage, mongo, file>>
     ELSE \E c \in connectToDatabase : \E id \in FreshIds :
          /\ Connected(c)
          /\ Respond("POST", 201, id, body)
          /\ IF UseMongo(c)
             THEN mongo' = Insert(mongo, id, Borrower(body)) /\ UNCHANGED file
             ELSE file' = Insert(file, id, Borrower(body)) /\ UNCHANGED mongo

\* if (!paymentRecord.amount || paymentRecord.amount <= 0)
HandlerPaymentValidation(paymentRecord) ==
  IF ~Truthy(paymentRecord.amount) \/ Leq(paymentRecord.amount, 0) THEN 400 ELSE 0

\* $push payments, $set remainingBalance; the same two writes on memoryData
HandlerPaymentUpdate(borrower, payment) ==
  [push |-> PaymentRecord(payment),
   remainingBalance |-> PaymentBalance(borrower, PaymentRecord(payment)),
   advance |-> <<>>]

HandlerPutPayment(id, payment) ==
  /\ impl = "handler"
  /\ UNCHANGED <<impl, inflight>>
  /\ IF id = NoId
     THEN Refuse("payment", 400, id, payment) /\ UNCHANGED <<db, useFileStorage>>
     ELSE \E c \in connectToDatabase :
          /\ Connected(c)
          /\ LET store == IF UseMongo(c) THEN mongo ELSE file IN
             IF id \notin DOMAIN store
             THEN Refuse("payment", 404, id, payment)
             ELSE IF HandlerPaymentValidation(PaymentRecord(payment)) # 0
             THEN Refuse("payment", HandlerPaymentValidation(PaymentRecord(payment)),
                         id, payment)
             ELSE /\ InRange(store[id], PaymentRecord(payment))
                  /\ Respond("payment", 200, id, payment)
                  /\ Store(UseMongo(c), id,
                           ApplyPayment(store[id], HandlerPaymentUpdate(store[id], payment)))

\* "Penalty functionality available but simplified in this version": res.json
\* answers 200 and nothing is read or written.
HandlerPutPenalty(id, penalty) ==
  /\ impl = "handler"
  /\ UNCHANGED <<impl, inflight>>
  /\ IF id = NoId
     THEN Refuse("penalty", 400, id, penalty) /\ UNCHANGED <<db, useFileStorage>>
     ELSE \E c \in connectToDatabase :
          /\ Connected(c)
          /\ Refuse("penalty", 200, id, penalty)

\* No branch reads body.borrowerUpdate: "Invalid request."
HandlerPutBorrowerUpdate(id, u) ==
  /\ impl = "handler"
  /\ UNCHANGED <<impl, inflight>>
  /\ IF id = NoId
     THEN Refuse("borrowerUpdate", 400, id, u) /\ UNCHANGED <<db, useFileStorage>>
     ELSE \E c \in connectToDatabase :
          /\ Connected(c)
          /\ Refuse("borrowerUpdate", 400, id, u)

\* A PUT with none of the body keys: "Invalid request."
HandlerPutInvalid(id) ==
  /\ impl = "handler"
  /\ UNCHANGED <<impl, inflight>>
  /\ IF id = NoId
     THEN Refuse("invalid", 400, id, EmptyBody) /\ UNCHANGED <<db, useFileStorage>>
     ELSE \E c \in connectToDatabase :
          /\ Connected(c)
          /\ Refuse("invalid", 400, id, EmptyBody)

\* GET: the list of the collection or of memoryData
HandlerGet ==
  /\ impl = "handler"
  /\ UNCHANGED <<impl, inflight>>
  /\ \E c \in connectToDatabase :
       /\ Connected(c)
       /\ Refuse("GET", 200, NoId, EmptyBody)

\* DELETE: deleteOne on the collection, or splice on memoryData
HandlerDelete(id) ==
  /\ impl = "handler"
  /\ UNCHANGED <<impl, inflight>>
  /\ IF id = NoId
     THEN Refuse("DELETE", 400, id, EmptyBody) /\ UNCHANGED <<db, useFileStorage>>
     ELSE \E c \in connectToDatabase :
          /\ Connected(c)
          /\ LET store == IF UseMongo(c) THEN mongo ELSE file IN
             IF id \notin DOMAIN store
             THEN Refuse("DELETE", 404, id, EmptyBody)
             ELSE /\ Respond("DELETE", 200, id, EmptyBody)
                  /\ Drop(UseMongo(c), id)

-----------------------------------------------------------------------------
(* api/loans.js (src/loans.js) *)

\* connectToDatabase() of api/loans.js: cachedDb is returned or set; a failed
\* client.connect() throws and the handler answers 500.
LoansConnect == IF db THEN {TRUE} ELSE {TRUE, FALSE}

\* const borrower = { ... } of the POST branch
LoansBorrower(body) ==
  [loanAmount |-> OrZero(Number(body.loanAmount)),
   term |-> OrZero(Number(body.term)),
   interestRate |-> OrZero(Number(body.interestRate)),
   interestType |-> body.interestType,
   nextDueDate |-> body.nextDueDate,
   monthlyPayment |-> OrZero(Number(body.monthlyPayment)),
   payments |-> <<>>,
   remainingBalance |-> OrZero(Number(body.loanAmount))]

LoansPost(body) ==
  /\ impl = "loans"
  /\ UNCHANGED <<impl, inflight, ops, useFileStorage, file>>
  /\ \E ok \in LoansConnect :
       /\ db' = ok
       /\ IF ~ok
          THEN Respond("POST", 500, NoId, body) /\ UNCHANGED mongo
          ELSE IF ~body.required
          THEN Respond("POST", 400, NoId, body) /\ UNCHANGED mongo
          ELSE \E id \in FreshIds :
               /\ Respond("POST", 201, id, body)
               /\ mongo' = Insert(mongo, id, LoansBorrower(body))

\* Math.max((borrower.remainingBalance ?? borrower.loanAmount) - amount, 0)
LoansPaymentBalance(borrower, paymentRecord) ==
  MathMax(Sub(borrower.remainingBalance, paymentRecord.amount), 0)

LoansPaymentUpdate(borrower, payment) ==
  [push |-> PaymentRecord(payment),
   remainingBalance |-> LoansPaymentBalance(borrower, PaymentRecord(payment)),
   advance |-> <<>>]

LoansPutPayment(id, payment) ==
  /\ impl = "loans"
  /\ UNCHANGED <<impl, inflight, useFileStorage>>
  /\ \E ok \in LoansConnect :
       /\ db' = ok
       /\ IF ~ok
          THEN Refuse("payment", 500, id, payment)
          ELSE IF id = NoId
          THEN Refuse("payment", 400, id, payment)
          ELSE IF id \notin DOMAIN mongo
          THEN Refuse("payment", 404, id, payment)
          ELSE /\ Respond("payment", 200, id, payment)
               /\ Store(TRUE, id,
                        ApplyPayment(mongo[id], LoansPaymentUpdate(mongo[id], payment)))

\* A PUT without body.payment falls through to "Method PUT Not Allowed".
LoansPutOther(op, id, body) ==
  /\ impl = "loans"
  /\ UNCHANGED <<impl, inflight, useFileStorage>>
  /\ \E ok \in LoansConnect :
       /\ db' = ok
       /\ IF ~ok
          THEN Refuse(op, 500, id, body)
          ELSE IF id = NoId
          THEN Refuse(op, 400, id, body)
          ELSE Refuse(op, 405, id, body)

\* GET: the list of the collection
LoansGet ==
  /\ impl = "loans"
  /\ UNCHANGED <<impl, inflight, useFileStorage>>
  /\ \E ok \in LoansConnect :
       /\ db' = ok
       /\ Refuse("GET", IF ok THEN 200 ELSE 500, NoId, EmptyBody)

\* DELETE: deleteOne on the collection
LoansDelete(id) ==
  /\ impl = "loans"
  /\ UNCHANGED <<impl, inflight, useFileStorage>>
  /\ \E ok \in LoansConnect :
       /\ db' = ok
       /\ IF ~ok
          THEN Refuse("DELETE", 500, id, EmptyBody)
          ELSE IF id = NoId
          THEN Refuse("DELETE", 400, id, EmptyBody)
          ELSE IF id \notin DOMAIN mongo
          THEN Refuse("DELETE", 404, id, EmptyBody)
          ELSE /\ Respond("DELETE", 200, id, EmptyBody)
               /\ Drop(TRUE, id)

-----------------------------------------------------------------------------
(* api/index.js (src/api/index.js), deployed with MONGODB_URI set *)

\* POST: a client of its own is connected for the request; a failure of it
\* answers 500.
IndexPost(body) ==
  /\ impl = "index"
  /\ UNCHANGED <<impl, inflight, ops, db, useFileStorage, file>>
  /\ IF ~body.required
     THEN Respond("POST", 400, NoId, body) /\ UNCHANGED mongo
     ELSE \E ok \in BOOLEAN :
          IF ~ok
          THEN Respond("POST", 500, NoId, body) /\ UNCHANGED mongo
          ELSE \E id \in FreshIds :
               /\ Respond("POST", 201, id, body)
               /\ mongo' = Insert(mongo, id, Borrower(body))

\* PUT and DELETE: "method not implemented yet"
IndexPut(op, id, body) ==
  /\ impl = "index"
  /\ UNCHANGED <<impl, inflight, db, useFileStorage>>
  /\ Refuse(op, 501, id, body)

\* GET: the list read through a client of its own, or an error message;
\* either is answered 200.
IndexGet ==
  /\ impl = "index"
  /\ UNCHANGED <<impl, inflight, db, useFileStorage>>
  /\ Refuse("GET", 200, NoId, EmptyBody)

-----------------------------------------------------------------------------

Impls == {"server", "handler", "loans", "index"}

Init ==
  /\ impl \in Impls
  /\ db = FALSE
  /\ useFileStorage = FALSE
  /\ mongo = NoLoans
  /\ file = NoLoans
  /\ inflight = <<>>
  /\ ops = 0
  /\ last = NoRequest

Next ==
  \/ \E body \in PostBodies : ServerPost(body)
  \/ \E r \in Puts(PaymentBodies) : ServerPutPayment(r[1], r[2])
  \/ \E r \in Puts(PenaltyBodies) : ServerPutPenalty(r[1], r[2])
  \/ \E r \in Puts(BorrowerUpdates) : ServerPutBorrowerUpdate(r[1], r[2])
  \/ \E id \in AnyId : ServerPutInvalid(id)
  \/ ServerGet
  \/ \E id \in AnyId : ServerDelete(id)
  \/ \E body \in PostBodies : HandlerPost(body)
  \/ \E r \in Puts(PaymentBodies) : HandlerPutPayment(r[1], r[2])
  \/ \E r \in Puts(OneOf(PenaltyBodies)) : HandlerPutPenalty(r[1], r[2])
  \/ \E r \in Puts(OneOf(BorrowerUpdates)) : HandlerPutBorrowerUpdate(r[1], r[2])
  \/ \E id \in AnyId : HandlerPutInvalid(id)
  \/ HandlerGet
  \/ \E id \in AnyId : HandlerDelete(id)
  \/ \E body \in PostBodies : LoansPost(body)
  \/ \E r \in Puts(PaymentBodies) : LoansPutPayment(r[1], r[2])
  \/ \E r \in Puts(OneOf(PenaltyBodies)) : LoansPutOther("penalty", r[1], r[2])
  \/ \E r \in Puts(OneOf(BorrowerUpdates)) : LoansPutOther("borrowerUpdate", r[1], r[2])
  \/ \E id \in AnyId : LoansPutOther("invalid", id, EmptyBody)
  \/ LoansGet
  \/ \E id \in AnyId : LoansDelete(id)
  \/ \E body \in PostBodies : IndexPost(body)
  \/ \E r \in Puts(OneOf(PaymentBodies)) : IndexPut("payment", r[1], r[2])
  \/ \E r \in Puts(OneOf(PenaltyBodies)) : IndexPut("penalty", r[1], r[2])
  \/ \E r \in Puts(OneOf(BorrowerUpdates)) : IndexPut("borrowerUpdate", r[1], r[2])
  \/ \E id \in AnyId : IndexPut("invalid", id, EmptyBody)
  \/ IndexGet
  \/ \E id \in AnyId : IndexPut("DELETE", id, EmptyBody)

Spec == Init /\ [][Next]_vars

-----------------------------------------------------------------------------
(* PUT payment and PUT penalty in database mode, await by await: the       *)
(* document is read (findOne), the update is computed, and it is written   *)
(* (updateOne) in two steps; other requests run in between.                *)

\* The requests in flight that the model follows.
MaxRequests == 2

Requests == 1 .. MaxRequests

Idle == [pc |-> "idle"]

\* await collection.findOne(...), then the computation up to the next await
PaymentFindOne(r, id, payment) ==
  /\ impl \in {"server", "handler"}
  /\ inflight[r].pc = "idle"
  /\ UseMongo([db |-> db, useFileStorage |-> useFileStorage])
  /\ UNCHANGED <<impl, db, useFileStorage, mongo, file, ops, last>>
  /\ IF id \notin DOMAIN mongo
     THEN inflight' = [inflight EXCEPT ![r] = [pc |-> "done", op |-> "payment", status |-> 404]]
     ELSE IF impl = "server" /\ ServerPaymentValidation(PaymentRecord(payment)) # 0
     THEN inflight' = [inflight EXCEPT ![r] = [pc |-> "done", op |-> "payment", status |-> 400]]
     ELSE IF impl = "handler" /\ HandlerPaymentValidation(PaymentRecord(payment)) # 0
     THEN inflight' = [inflight EXCEPT ![r] = [pc |-> "done", op |-> "payment", status |-> 400]]
     ELSE /\ InRange(mongo[id], PaymentRecord(payment))
          /\ inflight' =
               [inflight EXCEPT ![r] =
                  [pc |-> "updateOne", op |-> "payment", id |-> id,
                   updateData |-> IF impl = "server"
                                  THEN ServerPaymentUpdate(mongo[id], payment)
                                  ELSE HandlerPaymentUpdate(mongo[id], payment)]]

\* await collection.updateOne(...), then the response
PaymentUpdateOne(r) ==
  /\ inflight[r].pc = "updateOne"
  /\ inflight[r].op = "payment"
  /\ UNCHANGED <<impl, db, useFileStorage, file, ops, last>>
  /\ mongo' = [mongo EXCEPT ![inflight[r].id] = ApplyPayment(@, inflight[r].updateData)]
  /\ inflight' = [inflight EXCEPT ![r] = [pc |-> "done", op |-> "payment", status |-> 200]]

\* penalty branch of app.put: await collection.findOne(...), then penaltyRecord,
\* newTotalPenalties and newBalance from the document that was read
PenaltyFindOne(r, id, penalty) ==
  /\ impl = "server"
  /\ inflight[r].pc = "idle"
  /\ UseMongo([db |-> db, useFileStorage |-> useFileStorage])
  /\ UNCHANGED <<impl, db, useFileStorage, mongo, file, ops, last>>
  /\ IF id \notin DOMAIN mongo
     THEN inflight' = [inflight EXCEPT ![r] = [pc |-> "done", op |-> "penalty", status |-> 404]]
     ELSE inflight' =
            [inflight EXCEPT ![r] =
               [pc |-> "updateOne", op |-> "penalty", id |-> id,
                borrower |-> mongo[id], penaltyRecord |-> PenaltyRecord(penalty)]]

\* penalty branch of app.put: await collection.updateOne(...), then the response
PenaltyUpdateOne(r) ==
  /\ inflight[r].pc = "updateOne"
  /\ inflight[r].op = "penalty"
  /\ UNCHANGED <<impl, db, useFileStorage, file, ops, last>>
  /\ mongo' = [mongo EXCEPT ![inflight[r].id] =
                 ApplyPenalty(@, inflight[r].borrower, inflight[r].penaltyRecord)]
  /\ inflight' = [inflight EXCEPT ![r] = [pc |-> "done", op |-> "penalty", status |-> 200]]

\* The handler's PUT payment in memory mode up to "await connectToDatabase()",
\* which returns null without a connection attempt; the request is suspended
\* at the await.
MemoryConnect(r, id, payment) ==
  /\ impl = "handler"
  /\ inflight[r].pc = "idle"
  /\ useFileStorage
  /\ UNCHANGED <<impl, db, useFileStorage, mongo, file, ops, last>>
  /\ inflight' = [inflight EXCEPT ![r] =
                    [pc |-> "memory", op |-> "payment", id |-> id, payment |-> payment]]

\* borrower = data.borrowers.find(b => b._id === id), seeing the loan without
\* the payments written since it was created
MemoryBorrowerStale(id) == [file[id] EXCEPT !.payments = <<>>]

\* const data = readData(); borrower = data.borrowers.find(b => b._id === id)
MemoryBorrower(id) == file[id]

\* The handler's PUT payment in memory mode after the await: lookup,
\* validation, newBalance, push and writeData(data) with no await between
\* them, then the response
MemoryPayment(r) ==
  /\ inflight[r].pc = "memory"
  /\ UNCHANGED <<impl, db, useFileStorage, mongo, ops, last>>
  /\ LET id == inflight[r].id
         payment == inflight[r].payment
         paymentRecord == PaymentRecord(payment)
         answer(status) == [pc |-> "done", op |-> "payment", store |-> "file",
                            status |-> status, amount |-> paymentRecord.amount]
     IN IF id \notin DOMAIN file
        THEN /\ inflight' = [inflight EXCEPT ![r] = answer(404)]
             /\ UNCHANGED file
        ELSE IF HandlerPaymentValidation(paymentRecord) # 0
        THEN /\ inflight' = [inflight EXCEPT ![r] = answer(400)]
             /\ UNCHANGED file
        ELSE /\ InRange(file[id], paymentRecord)
             /\ file' = [file EXCEPT ![id] =
                           ApplyPayment(@, HandlerPaymentUpdate(MemoryBorrower(id), payment))]
             /\ inflight' = [inflight EXCEPT ![r] = answer(200)]

\* if (db && !useFileStorage) after "await connectToDatabase()" returned
\* connected (the db) or not (null): the store the request uses
StoreUsed(connected, flag) == IF connected /\ ~flag THEN "mongo" ELSE "file"

\* GET up to the await inside connectToDatabase(): "if (db) return db",
\* "if (useFileStorage) return null" and the answer from the store selected,
\* or client.connect() started and the request suspended
GetConnect(r) ==
  /\ impl \in {"server", "handler"}
  /\ inflight[r].pc = "idle"
  /\ UNCHANGED <<impl, db, useFileStorage, mongo, file, ops, last>>
  /\ IF db \/ useFileStorage
     THEN inflight' = [inflight EXCEPT ![r] =
                         [pc |-> "done", op |-> "GET", status |-> 200,
                          store |-> StoreUsed(db, useFileStorage)]]
     ELSE inflight' = [inflight EXCEPT ![r] = [pc |-> "connect", op |-> "GET"]]

\* await client.connect() resolves (db = client.db(dbName)) or throws
\* (useFileStorage = true); then the GET answers from the store selected
GetConnected(r) ==
  /\ inflight[r].pc = "connect"
  /\ UNCHANGED <<impl, mongo, file, ops, last>>
  /\ \E ok \in BOOLEAN :
       /\ db' = (db \/ ok)
       /\ useFileStorage' = (useFileStorage \/ ~ok)
       /\ inflight' = [inflight EXCEPT ![r] =
                         [pc |-> "done", op |-> "GET", status |-> 200,
                          store |-> StoreUsed(ok, useFileStorage')]]

InitConcurrent ==
  /\ impl \in {"server", "handler"}
  /\ db = FALSE
  /\ useFileStorage = FALSE
  /\ mongo = NoLoans
  /\ file = NoLoans
  /\ inflight = [r \in Requests |-> Idle]
  /\ ops = 0
  /\ last = NoRequest

NextConcurrent ==
  \/ \E body \in PostBodies : ServerPost(body)
  \/ \E body \in PostBodies : HandlerPost(body)
  \/ \E r \in Requests, id \in Ids, payment \in PaymentBodies : PaymentFindOne(r, id, payment)
  \/ \E r \in Requests : PaymentUpdateOne(r)
  \/ \E r \in Requests, id \in Ids, penalty \in PenaltyBodies : PenaltyFindOne(r, id, penalty)
  \/ \E r \in Requests : PenaltyUpdateOne(r)
  \/ \E r \in Requests, id \in Ids, payment \in PaymentBodies : MemoryConnect(r, id, payment)
  \/ \E r \in Requests : MemoryPayment(r)
  \/ \E r \in Requests : GetConnect(r)
  \/ \E r \in Requests : GetConnected(r)

SpecConcurrent == InitConcurrent /\ [][NextConcurrent]_vars

-----------------------------------------------------------------------------
(* Payments in floating point.  A JS Number is a binary floating-point      *)
(* value: every + and - is rounded to the nearest value with a significand  *)
(* of 53 bits.  Here the significand has Precision bits and a number n      *)
(* stands for n units of the smallest power of two in play.                 *)

\* Bits of the significand.
Precision == 4

\* Values below Limit are exact.
Limit == 2 ^ Precision

\* The spacing of the representable values around x >= 0
RECURSIVE Spacing(_, _)
Spacing(x, q) == IF x < Limit * q THEN q ELSE Spacing(x, 2 * q)

\* Round to nearest, ties to even
Round(x) ==
  LET a == IF x < 0 THEN 0 - x ELSE x
      q == Spacing(a, 1)
      down == (a \div q) * q
      near == IF 2 * (a - down) < q THEN down
              ELSE IF 2 * (a - down) > q THEN down + q
              ELSE IF (down \div q) % 2 = 0 THEN down ELSE down + q
  IN IF x < 0 THEN 0 - near ELSE near

\* a + b, a - b
Plus(a, b) == Round(a + b)

Minus(a, b) == Round(a - b)

\* list.reduce((sum, p) => sum + (p.amount || 0), 0)
RECURSIVE ReduceAmounts(_)
ReduceAmounts(list) ==
  IF list = <<>> THEN 0
  ELSE Plus(ReduceAmounts(SubSeq(list, 1, Len(list) - 1)), OrZero(list[Len(list)].amount))

\* newBalance of the payment branch of app.put
ServerNewBalance(borrower, paymentRecord) ==
  LET totalPayments == Plus(ReduceAmounts(borrower.payments), paymentRecord.amount)
      totalPenalties == OrZero(borrower.totalPenalties)
      loanAmount == OrZero(borrower.loanAmount)
      interest == totalInterest(loanAmount, borrower.interestRate, borrower.term,
                                borrower.interestType)
  IN MathMax(Minus(Plus(Plus(loanAmount, interest), totalPenalties), totalPayments), 0)

\* newBalance of the payment branch of api/loans.js
LoansNewBalance(borrower, paymentRecord) ==
  MathMax(Minus(borrower.remainingBalance, paymentRecord.amount), 0)

\* Numbers of a request body: JSON.parse gives representable values.
Representable(n) == Round(n) = n

MaxAmount == 12

RoundedAmounts == {n \in 1 .. MaxAmount : Representable(n)}

RoundedLoans == {n \in {16, 20, 24, 28} : Representable(n)}

\* A loan without interest: "if (borrower.interestRate && borrower.term)"
\* leaves totalInterest 0.
RoundedBody(loanAmount) ==
  [StdBody EXCEPT !.loanAmount = Num(loanAmount), !.interestRate = Num(0)]

RoundedPayment(amount) == [StdPayment EXCEPT !.amount = Num(amount)]

\* PUT payment of server.js and of api/loans.js on the collection, the
\* balance computed in floating point
PutPaymentRounded(id, amount) ==
  /\ id \in DOMAIN mongo
  /\ ops < MaxOps
  /\ ops' = ops + 1
  /\ Respond("payment", 200, id, RoundedPayment(amount))
  /\ LET paymentRecord == PaymentRecord(RoundedPayment(amount))
         newBalance == IF impl = "server"
                       THEN ServerNewBalance(mongo[id], paymentRecord)
                       ELSE LoansNewBalance(mongo[id], paymentRecord)
     IN mongo' = [mongo EXCEPT ![id] =
                    ApplyPayment(@, [push |-> paymentRecord,
                                     remainingBalance |-> newBalance,
                                     advance |-> <<>>])]
  /\ UNCHANGED <<impl, db, useFileStorage, file, inflight>>

InitRounded ==
  /\ impl \in {"server", "loans"}
  /\ db = TRUE
  /\ useFileStorage = FALSE
  /\ \E loanAmount \in RoundedLoans :
       mongo = Insert(NoLoans, "L1", Borrower(RoundedBody(loanAmount)))
  /\ file = NoLoans
  /\ inflight = <<>>
  /\ ops = 0
  /\ last = NoRequest

NextRounded == \E id \in Ids, amount \in RoundedAmounts : PutPaymentRounded(id, amount)

SpecRounded == InitRounded /\ [][NextRounded]_vars

-----------------------------------------------------------------------------
(* The ledger as the specification states it *)

StoredIds == DOMAIN mongo \cup DOMAIN file

Doc(id) == IF id \in DOMAIN mongo THEN mongo[id] ELSE file[id]

\* The document of id before and after a step
Pre(id) == Doc(id)

Post(id) == Doc(id)'

RECURSIVE Total(_)
Total(list) == IF list = <<>> THEN 0 ELSE list[1].amount + Total(Tail(list))

IsPrefix(s, t) == Len(s) <= Len(t) /\ SubSeq(t, 1, Len(s)) = s

\* The terms of the loan are numbers.
Numeric(doc) ==
  ~IsNaN(doc.loanAmount) /\ ~IsNaN(doc.interestRate) /\ ~IsNaN(doc.term)

\* principal * (monthlyRate / 100) * termMonths
LedgerInterest(doc) ==
  (doc.loanAmount * doc.interestRate * doc.term)
    \div (IF doc.interestType = "annually" THEN 1200 ELSE 100)

\* max(0, principal + totalInterest + penalties - payments)
LedgerBalance(doc, penalties) ==
  LET owed == doc.loanAmount + LedgerInterest(doc) + penalties - Total(doc.payments)
  IN IF owed >= 0 THEN owed ELSE 0

\* The request of the step: a PUT with this body key, on the stored loan id
Put(op, id) == last'.op = op /\ last'.id = id /\ id \in StoredIds

\* The amount of the payment or penalty of the step
Amount == Number(last'.body.amount)

ValidAmount(n) == ~IsNaN(n) /\ n > 0 /\ n <= 999999999

\* The record a payment of the step leaves
StepPayment ==
  [amount |-> Amount,
   date |-> IF last'.body.date # <<>> THEN last'.body.date[1] ELSE Today]

-----------------------------------------------------------------------------
(* C1 *)

\* C1: in server.js, after every accepted mutation applied one at a time, the
\* stored remainingBalance of every loan is max(0, principal + totalInterest +
\* sum of the penalties - sum of the payments), with totalInterest taken from
\* the loan's current principal, interestRate, termMonths and interestPeriod.
C1_BalanceIsLedgerBalance ==
  impl = "server" =>
    \A id \in StoredIds :
      /\ Numeric(Doc(id))
      /\ Doc(id).remainingBalance = LedgerBalance(Doc(id), Total(Doc(id).penalties))

(* C2 *)

\* C2: for every loan, after any sequence of operations with any numeric
\* inputs the handlers accept, remainingBalance is a number and is >= 0.
C2_BalanceNotNegative ==
  \A id \in StoredIds :
    ~IsNaN(Doc(id).remainingBalance) /\ Doc(id).remainingBalance >= 0

(* C3 *)

\* C3: in every PUT payment handler, a payment whose amount is not a finite
\* number, is <= 0 or is > 999,999,999 is rejected, and the loan's payments,
\* remainingBalance, nextDueDate and lastAdvancePayment are left unchanged.
C3_InvalidPaymentRejected ==
  [][(last'.op = "payment" /\ ~ValidAmount(Amount)) =>
       /\ last'.status >= 400
       /\ UNCHANGED <<mongo, file>>]_vars

(* C4 *)

\* C4: when payment requests on the same loan run concurrently in database
\* mode, once all of them have completed and been accepted the stored
\* remainingBalance is max(0, principal + totalInterest + totalPenalties -
\* sum of all stored payments): no payment's effect on the balance is lost.
C4_NoPaymentLost ==
  (\A r \in Requests : /\ inflight[r].pc = "done"
                       /\ inflight[r].op = "payment"
                       /\ inflight[r].status = 200
                       /\ "store" \notin DOMAIN inflight[r]) =>
    \A id \in DOMAIN mongo :
      mongo[id].remainingBalance = LedgerBalance(mongo[id], mongo[id].totalPenalties)

(* C5 *)

\* C5: for principal > 0 and termMonths > 0, every POST handler creates the
\* loan with empty payments and penalties and remainingBalance = principal +
\* principal * (monthlyRate / 100) * termMonths.
C5_CreatedWithInterest ==
  (/\ last.op = "POST"
   /\ last.status = 201
   /\ Number(last.body.loanAmount) > 0
   /\ Number(last.body.term) > 0) =>
    LET doc == Doc(last.id)
        principal == Number(last.body.loanAmount)
    IN /\ last.id \in StoredIds
       /\ doc.payments = <<>>
       /\ "penalties" \in DOMAIN doc
       /\ doc.penalties = <<>>
       /\ doc.remainingBalance =
            principal +
            (principal * Number(last.body.interestRate) * Number(last.body.term))
              \div (IF last.body.interestType = "annually" THEN 1200 ELSE 100)

(* C6 *)

\* The step is a valid payment sent to server.js with the rollforward asked
\* for, on a loan with monthlyPayment > 0 and a nextDueDate, and it covers
\* k >= 1 instalments.
Rollforward(id, k) ==
  /\ impl = "server"
  /\ Put("payment", id)
  /\ ValidAmount(Amount)
  /\ last'.body.updateDueDate
  /\ Gt(Pre(id).monthlyPayment, 0)
  /\ Pre(id).nextDueDate # <<>>
  /\ k = Amount \div Pre(id).monthlyPayment
  /\ k >= 1

\* lastAdvancePayment as the claim lists it
Advance(id, k) ==
  [amount |-> Amount,
   monthsCovered |-> k,
   date |-> StepPayment.date,
   originalDueDate |-> Pre(id).nextDueDate[1],
   newDueDate |-> Post(id).nextDueDate[1]]

\* The same day of the month k calendar months on, or the last day of that
\* month when it is shorter.
MonthsLater(d, k) ==
  LET y == (d.y * 12 + d.m + k) \div 12
      m == (d.y * 12 + d.m + k) % 12
  IN Date(y, m, IF d.d <= DaysInMonth(y, m) THEN d.d ELSE DaysInMonth(y, m))

\* C6: a valid payment that asks for the rollforward, on a loan with
\* monthlyPayment > 0 and a nextDueDate, with monthsCovered = floor(amount /
\* monthlyPayment) >= 1, advances nextDueDate by exactly monthsCovered months
\* and sets lastAdvancePayment to {amount, monthsCovered, date,
\* originalDueDate = the previous nextDueDate, newDueDate = the new one}.
C6_AdvancedExactly ==
  [][\A id \in Ids, k \in 1 .. 12 :
       Rollforward(id, k) =>
         /\ Post(id).nextDueDate = <<MonthsLater(Pre(id).nextDueDate[1], k)>>
         /\ Post(id).lastAdvancePayment = <<Advance(id, k)>>]_vars

(* C7 *)

\* C7: a valid payment sent to server.js that does not ask for the
\* rollforward, or is smaller than monthlyPayment, or is on a loan with
\* monthlyPayment = 0 or without nextDueDate, leaves nextDueDate and
\* lastAdvancePayment as they were, appends the payment and sets
\* remainingBalance to the ledger balance.
C7_NoRollforward ==
  [][\A id \in Ids :
     (/\ impl = "server"
      /\ Put("payment", id)
      /\ ValidAmount(Amount)
      /\ \/ ~last'.body.updateDueDate
         \/ Pre(id).monthlyPayment = 0
         \/ Pre(id).nextDueDate = <<>>
         \/ Gt(Pre(id).monthlyPayment, Amount)) =>
       /\ Post(id).nextDueDate = Pre(id).nextDueDate
       /\ Post(id).lastAdvancePayment = Pre(id).lastAdvancePayment
       /\ Post(id).payments = Append(Pre(id).payments, StepPayment)
       /\ Numeric(Pre(id)) =>
            Post(id).remainingBalance =
              LedgerBalance(Post(id), Total(Post(id).penalties))]_vars

(* C8 *)

\* C8: each recordPenalty applied to a loan appends one record holding the
\* given amount after the records already there, and totalPenalties is the
\* sum of the amounts of all records of the penalties list.
C8_PenaltyAppended ==
  [][\A id \in Ids :
     (/\ Put("penalty", id)
      /\ last'.status = 200
      /\ ~IsNaN(Amount)) =>
       /\ Len(Post(id).penalties) = Len(Pre(id).penalties) + 1
       /\ IsPrefix(Pre(id).penalties, Post(id).penalties)
       /\ Post(id).penalties[Len(Post(id).penalties)].amount = Amount
       /\ Post(id).totalPenalties = Total(Post(id).penalties)]_vars

(* C9 *)

\* C9: in the handlers that record payments, a valid payment on a settled
\* loan (stored remainingBalance = 0) is accepted and appended to payments,
\* and remainingBalance stays 0.
C9_SettledLoanTakesPayment ==
  [][\A id \in Ids :
     (/\ impl \in {"server", "handler", "loans"}
      /\ Put("payment", id)
      /\ ValidAmount(Amount)
      /\ Pre(id).remainingBalance = 0) =>
       /\ last'.status = 200
       /\ Post(id).payments = Append(Pre(id).payments, StepPayment)
       /\ Post(id).remainingBalance = 0]_vars

(* C10 *)

\* C10: across payment, penalty and term-edit operations the payments and
\* penalties lists are append-only: the list before each operation is a
\* prefix of the list after it.
C10_AppendOnly ==
  [][last'.op \in {"payment", "penalty", "borrowerUpdate"} =>
       \A id \in StoredIds :
         /\ id \in StoredIds'
         /\ IsPrefix(Pre(id).payments, Post(id).payments)
         /\ "penalties" \in DOMAIN Pre(id) =>
              /\ "penalties" \in DOMAIN Post(id)
              /\ IsPrefix(Pre(id).penalties, Post(id).penalties)]_vars

\* A loan holds two payments and a penalty, the last of them just appended.
C10_Witness ==
  /\ last.op \in {"payment", "penalty"}
  /\ last.status = 200
  /\ last.id \in StoredIds
  /\ "penalties" \in DOMAIN Doc(last.id)
  /\ Len(Doc(last.id).payments) = 2
  /\ Len(Doc(last.id).penalties) = 1

(* C11 *)

\* The term fields the edit u carries are the loan's current terms (an edit
\* without term fields carries none).
SameTerms(doc, u) ==
  /\ Defined(u.loanAmount) => Number(u.loanAmount) = doc.loanAmount
  /\ Defined(u.term) => Number(u.term) = doc.term
  /\ Defined(u.interestRate) => Number(u.interestRate) = doc.interestRate
  /\ u.interestType # "" => u.interestType = doc.interestType

\* C11: a term edit whose term fields equal the loan's current principal,
\* termMonths, interestRate and interestPeriod, or that has no term fields,
\* leaves remainingBalance as it was; and an accepted edit applied a second
\* time leaves the loan as the first application left it.
C11_EditWithSameTerms ==
  [][\A id \in Ids :
       Put("borrowerUpdate", id) =>
         /\ SameTerms(Pre(id), last'.body) =>
              Post(id).remainingBalance = Pre(id).remainingBalance
         /\ last'.status = 200 =>
              ApplyUpdate(Post(id), Post(id), last'.body) = Post(id)]_vars

(* C12 *)

Degenerate(doc) == doc.loanAmount <= 0 \/ doc.term <= 0

\* The step is a POST that server.js accepted and stored as loan id.
Created(id) ==
  /\ impl = "server"
  /\ last'.op = "POST"
  /\ last'.status = 201
  /\ last'.id = id

\* The step is a payment, a penalty or an edit of the terms that server.js
\* accepted on loan id, and that recomputed the balance.
Recomputed(id) ==
  /\ impl = "server"
  /\ \/ Put("payment", id)
     \/ Put("penalty", id)
     \/ Put("borrowerUpdate", id) /\ TermsChanged(last'.body)
  /\ last'.status = 200
  /\ Numeric(Post(id))

\* max(0, principal + interest + totalPenalties - payments)
BalanceWith(doc, interest) ==
  LET owed == doc.loanAmount + interest + doc.totalPenalties - Total(doc.payments)
  IN IF owed >= 0 THEN owed ELSE 0

\* C13 as stated: for a loan with principal <= 0 or termMonths <= 0 the
\* interest that the balance computation adds to principal is principal
\* itself, at creation and in the payment, penalty and term-edit
\* recomputations.
C13_InterestIsPrincipal ==
  [][\A id \in Ids :
       /\ (Created(id) /\ Degenerate(Post(id))) =>
            Post(id).remainingBalance = Post(id).loanAmount + Post(id).loanAmount
       /\ (Recomputed(id) /\ Degenerate(Post(id))) =>
            Post(id).remainingBalance = BalanceWith(Post(id), Post(id).loanAmount)]_vars

\* C13 as amended: for a loan with principal <= 0 or termMonths <= 0,
\* creation adds no interest and stores remainingBalance = principal; the
\* payment, penalty and term-edit recomputations add principal *
\* (monthlyRate / 100) * termMonths, which is 0 when principal or termMonths
\* is 0, and never the principal a second time.
C13_NoInterestAtCreation ==
  [][\A id \in Ids :
       /\ (Created(id) /\ Degenerate(Post(id))) =>
            Post(id).remainingBalance = Post(id).loanAmount
       /\ (Recomputed(id) /\ Degenerate(Post(id))) =>
            Post(id).remainingBalance = BalanceWith(Post(id), LedgerInterest(Post(id)))]_vars

\* A loan of 1200 at 5% with term 0 was created with balance 1200 and has
\* taken a payment of 150: its balance is 1050.
C13_Witness ==
  /\ impl = "server"
  /\ last.op = "payment"
  /\ last.status = 200
  /\ last.id \in StoredIds
  /\ Doc(last.id).loanAmount = 1200
  /\ Doc(last.id).interestRate = 5
  /\ Doc(last.id).term = 0
  /\ Len(Doc(last.id).payments) = 1
  /\ Doc(last.id).payments[1].amount = 150
  /\ Doc(last.id).remainingBalance = 1050

(* C14 *)

\* date a is before date b
Before(a, b) ==
  \/ a.y < b.y
  \/ a.y = b.y /\ a.m < b.m
  \/ a.y = b.y /\ a.m = b.m /\ a.d < b.d

\* C14: a payment that server.js accepts from a body {payment: {...},
\* updateDueDate: true}, the flag beside the payment object, on a loan with
\* monthlyPayment > 0 and a nextDueDate, with amount >= monthlyPayment,
\* advances nextDueDate.
C14_FlagBesidePayment ==
  [][\A id \in Ids :
       (/\ impl = "server"
        /\ Put("payment", id)
        /\ last'.status = 200
        /\ last'.body.bodyUpdateDueDate
        /\ Gt(Pre(id).monthlyPayment, 0)
        /\ Pre(id).nextDueDate # <<>>
        /\ Amount >= Pre(id).monthlyPayment) =>
         /\ Post(id).nextDueDate # <<>>
         /\ Before(Pre(id).nextDueDate[1], Post(id).nextDueDate[1])]_vars

(* C15 *)

\* C15: once the MongoDB connection has failed, server.js serves the
\* operations on a loan of the fallback store as it does in database mode: a
\* valid payment, a penalty and a borrower update are answered 200 and leave
\* the loan stored, a payment and a penalty appended; a DELETE is answered
\* 200 and removes the loan.
C15_FallbackServesAll ==
  [][\A id \in Ids :
       (/\ impl = "server"
        /\ useFileStorage'
        /\ id \in DOMAIN file
        /\ last'.id = id
        /\ \/ last'.op = "payment" /\ ValidAmount(Amount)
           \/ last'.op \in {"penalty", "borrowerUpdate", "DELETE"}) =>
         /\ last'.status = 200
         /\ last'.op = "DELETE" <=> id \notin DOMAIN file'
         /\ last'.op = "payment" =>
              Len(file'[id].payments) = Len(file[id].payments) + 1
         /\ last'.op = "penalty" =>
              Len(file'[id].penalties) = Len(file[id].penalties) + 1]_vars

(* C16 *)

\* The body keys of a PUT that names an operation
PutKeys == {"payment", "penalty", "borrowerUpdate"}

\* C16: in every handler, a PUT without id, or with an id and none of the
\* body keys payment, penalty, borrowerUpdate, is answered 400; a PUT with one
\* of the keys that names a loan id that is not stored is answered 404; and in
\* these cases no loan is changed.
C16_PutRefused ==
  [][/\ (last'.op \in PutKeys \cup {"invalid"} /\ last'.id = NoId) =>
          last'.status = 400 /\ UNCHANGED <<mongo, file>>
     /\ (last'.op = "invalid" /\ last'.id # NoId) =>
          last'.status = 400 /\ UNCHANGED <<mongo, file>>
     /\ (last'.op \in PutKeys /\ last'.id # NoId /\ last'.id \notin StoredIds) =>
          last'.status = 404 /\ UNCHANGED <<mongo, file>>]_vars

(* C17 *)

\* C17: a POST whose body lacks name, contact or address is answered 400 and
\* creates no loan: the stored loans are the same before and after.
C17_PostRefused ==
  [][(last'.op = "POST" /\ ~last'.body.required) =>
       /\ last'.status = 400
       /\ UNCHANGED <<mongo, file>>]_vars

(* C18 *)

\* C18: a DELETE with the id of a stored loan removes that loan and leaves
\* every other loan as it was; a DELETE with an id that is not stored is
\* answered 404 and changes nothing.
C18_DeleteRemovesOne ==
  [][\A id \in Ids \cup {UnknownId} :
       (last'.op = "DELETE" /\ last'.id = id) =>
         IF id \in StoredIds
         THEN /\ last'.status = 200
              /\ StoredIds' = StoredIds \ {id}
              /\ \A other \in StoredIds \ {id} : Post(other) = Pre(other)
         ELSE /\ last'.status = 404
              /\ UNCHANGED <<mongo, file>>]_vars

(* C19 *)

\* C19: the storage mode is sticky.  Once useFileStorage is set it stays set,
\* db stays unset, and connectToDatabase() has one outcome, null, with no
\* connection attempted; once db is set it stays set, useFileStorage stays
\* clear, and connectToDatabase() has one outcome, the db it already holds.
C19_StickyMode ==
  [][(impl = "server" \/ impl = "handler") =>
       /\ useFileStorage =>
            (/\ connectToDatabase = {[db |-> FALSE, useFileStorage |-> TRUE]}
             /\ useFileStorage'
             /\ ~db')
       /\ db =>
            (/\ connectToDatabase = {[db |-> TRUE, useFileStorage |-> FALSE]}
             /\ db'
             /\ ~useFileStorage')]_vars

\* a loan created and then paid in file-storage mode by the handler: the flag
\* was set by an earlier request and a later request ran with it set
C19_Witness ==
  /\ impl = "handler"
  /\ useFileStorage /\ ~db
  /\ last.op = "payment" /\ last.status = 200
  /\ \E id \in DOMAIN file : Len(file[id].payments) >= 1

(* C20 *)

\* C20: when penalty requests on the same loan run concurrently in database
\* mode, once all of them have completed and been accepted, totalPenalties is
\* the sum of the amounts of the stored penalties and remainingBalance is
\* max(0, principal + totalInterest + that sum - sum of the stored payments):
\* every penalty is counted.
C20_NoPenaltyLost ==
  (\A r \in Requests : /\ inflight[r].pc = "done"
                       /\ inflight[r].op = "penalty"
                       /\ inflight[r].status = 200) =>
    \A id \in DOMAIN mongo :
      /\ Len(mongo[id].penalties) = MaxRequests
      /\ mongo[id].totalPenalties = Total(mongo[id].penalties)
      /\ mongo[id].remainingBalance =
           LedgerBalance(mongo[id], Total(mongo[id].penalties))

(* C21 *)

\* C21: db and useFileStorage are never set together, also when requests call
\* connectToDatabase() before the first connection attempt has resolved and
\* one attempt succeeds while another fails; so all requests of the process
\* that have been answered used the same store.
C21_OneStore ==
  /\ ~(db /\ useFileStorage)
  /\ \A r1, r2 \in Requests :
       (/\ inflight[r1].pc = "done" /\ inflight[r1].op = "GET"
        /\ inflight[r2].pc = "done" /\ inflight[r2].op = "GET") =>
         inflight[r1].store = inflight[r2].store

(* C22 *)

\* C22: for every stored loan whose remainingBalance is max(0, principal +
\* totalInterest + totalPenalties - sum of payments) and every valid payment
\* amount, the balance api/loans.js stores (remainingBalance - amount, floored
\* at 0) is the balance server.js stores (recomputed from the payments).
C22_SameBalance ==
  \A id \in DOMAIN mongo : \A amount \in RoundedAmounts :
    LET borrower == mongo[id]
        paymentRecord == PaymentRecord(RoundedPayment(amount))
    IN borrower.remainingBalance = LedgerBalance(borrower, borrower.totalPenalties) =>
         LoansNewBalance(borrower, paymentRecord) =
           ServerNewBalance(borrower, paymentRecord)

(* C23 *)

\* The requests are payments of the handler in memory mode, all answered 200
MemoryPaymentsDone ==
  \A r \in Requests : /\ inflight[r].pc = "done"
                       /\ inflight[r].op = "payment"
                       /\ "store" \in DOMAIN inflight[r]
                       /\ inflight[r].status = 200

RECURSIVE Amounts(_)
Amounts(rs) ==
  IF rs = {} THEN 0
  ELSE LET r == CHOOSE x \in rs : TRUE IN inflight[r].amount + Amounts(rs \ {r})

\* C23: in the memory mode of the serverless handler, under every
\* interleaving of concurrent payment requests on the same loan, once all of
\* them have been accepted every payment is stored once (as many records as
\* requests, their amounts summing to the amounts requested) and
\* remainingBalance is max(0, principal + totalInterest + totalPenalties -
\* sum of the stored payments).
C23_MemoryPaymentsAtomic ==
  MemoryPaymentsDone =>
    \A id \in DOMAIN file :
      /\ Len(file[id].payments) = MaxRequests
      /\ Total(file[id].payments) = Amounts(Requests)
      /\ file[id].remainingBalance = LedgerBalance(file[id], file[id].totalPenalties)

\* all the requests were accepted and a balance is left to pay
C23_Witness ==
  /\ MemoryPaymentsDone
  /\ \E id \in DOMAIN file :
       /\ file[id].loanAmount > 0
       /\ file[id].remainingBalance > 0
       /\ Len(file[id].payments) = MaxRequests

====
